---- MODULE Spec2Model ----
(***************************************************************************)
(* BloodConnect (src/blood_connect_react_tailwind_editable.jsx.js): the    *)
(* client-side record store of the BloodDonationApp component, its         *)
(* localStorage persistence, the donor filter, the notification channel    *)
(* and the export/import bridge.                                           *)
(*                                                                         *)
(* Representation.  A JavaScript string is a sequence of one-character     *)
(* strings, so that trim, toLowerCase and includes are computed.  A JSON   *)
(* text is a sequence of tokens (the lexemes of the text, white space      *)
(* dropped); JSON.stringify writes it and JSON.parse is a recursive        *)
(* descent parser over it.  An array is a sequence, an object a function   *)
(* from its keys.                                                          *)
(***************************************************************************)
EXTENDS Integers, Sequences, FiniteSets, Bags, TLC

VARIABLES
  phase,      \* "mounted" | "loading" | "ready" | "crashed"
  donors,     \* useState: donors
  requests,   \* useState: requests
  filter,     \* useState: filter {q, blood, city}
  message,    \* useState: message (Null or {text, type})
  view,       \* useState: view
  pending,    \* state updates queued by the mount effect, not yet rendered
  storage,    \* localStorage: key -> text
  now,        \* the clock read by Date.now(), in milliseconds
  timers,     \* setTimeout callbacks not yet run: their due times, in order
  reads,      \* FileReader reads in flight: the bag of the texts they will deliver
  exported,   \* the last document handed to the user by exportData
  wrote       \* the keys localStorage.setItem was called on in the last step

vars == <<phase, donors, requests, filter, message, view, pending, storage,
          now, timers, reads, exported, wrote>>

(***************************************************************************)
(* Bounds of the model.                                                    *)
(***************************************************************************)
MaxItems == 2
MaxTime == 2
MaxTimers == 2
MaxPeriods == 2
MaxReads == 2

(***************************************************************************)
(* Strings.                                                                *)
(***************************************************************************)
IsSpace(c) == c = " "

RECURSIVE TrimStart(_)
TrimStart(s) ==
  IF s # <<>> /\ IsSpace(Head(s)) THEN TrimStart(Tail(s)) ELSE s

RECURSIVE TrimEnd(_)
TrimEnd(s) ==
  IF s # <<>> /\ IsSpace(s[Len(s)]) THEN TrimEnd(SubSeq(s, 1, Len(s) - 1)) ELSE s

\* String.prototype.trim
Trim(s) == TrimEnd(TrimStart(s))

\* The letters the inputs are written in
LowerChar(c) ==
  CASE c = "A" -> "a"
    [] c = "B" -> "b"
    [] c = "D" -> "d"
    [] c = "H" -> "h"
    [] c = "K" -> "k"
    [] c = "O" -> "o"
    [] c = "X" -> "x"
    [] c = "Y" -> "y"
    [] OTHER -> c

\* String.prototype.toLowerCase
toLowerCase(s) == [i \in 1..Len(s) |-> LowerChar(s[i])]

\* String.prototype.includes
includes(s, q) ==
  \E i \in 0..(Len(s) - Len(q)) : SubSeq(s, i + 1, i + Len(q)) = q

Digit(n) == <<"0", "1", "2", "3", "4", "5", "6", "7", "8", "9">>[n + 1]

RECURSIVE Decimal(_)
\* Number.prototype.toString for a non-negative integer
Decimal(n) == IF n < 10 THEN <<Digit(n)>> ELSE Decimal(n \div 10) \o <<Digit(n % 10)>>

\* Date.now().toString()
NowId(t) == Decimal(t)

Pad3(n) ==
  <<Digit((n \div 100) % 10), Digit((n \div 10) % 10), Digit(n % 10)>>

\* new Date().toISOString(), for an instant t (ms) of the first second of the epoch
toISOString(t) ==
  <<"1", "9", "7", "0", "-", "0", "1", "-", "0", "1", "T",
    "0", "0", ":", "0", "0", ":", "0", "0", ".">> \o Pad3(t) \o <<"Z">>

(***************************************************************************)
(* JSON texts.  Tok, KeyTok and StrTok are the lexemes: punctuation and    *)
(* the literals true, false and null; an object key with its colon; a      *)
(* string literal.                                                         *)
(***************************************************************************)
Tok(t) == [t |-> t]
KeyTok(k) == [t |-> "key", k |-> k]
StrTok(s) == [t |-> "str", v |-> s]

\* The property order JSON.stringify follows: the order the handlers create them in
KeyOrder ==
  <<"id", "name", "phone", "blood", "city", "last_donated", "hospital", "note",
    "created_at", "fulfilled">>

\* The literal of a property value: fulfilled is a boolean, every other one a string
StringifyValue(k, x) ==
  IF k = "fulfilled" THEN <<Tok(IF x THEN "true" ELSE "false")>> ELSE <<StrTok(x)>>

RECURSIVE StringifyMembers(_, _, _)
StringifyMembers(o, i, first) ==
  IF i > Len(KeyOrder) THEN <<>>
  ELSE LET k == KeyOrder[i] IN
       IF k \in DOMAIN o
       THEN (IF first THEN <<>> ELSE <<Tok(",")>>)
              \o <<KeyTok(k)>> \o StringifyValue(k, o[k])
              \o StringifyMembers(o, i + 1, FALSE)
       ELSE StringifyMembers(o, i + 1, first)

\* JSON.stringify of one donor or request object
StringifyObject(o) == <<Tok("{")>> \o StringifyMembers(o, 1, TRUE) \o <<Tok("}")>>

RECURSIVE StringifyElems(_, _)
StringifyElems(list, i) ==
  IF i > Len(list) THEN <<>>
  ELSE (IF i = 1 THEN <<>> ELSE <<Tok(",")>>)
         \o StringifyObject(list[i]) \o StringifyElems(list, i + 1)

\* JSON.stringify of an array of donor or request objects
Stringify(list) == <<Tok("[")>> \o StringifyElems(list, 1) \o <<Tok("]")>>

\* What JSON.parse yields: the kind of the value, the value, and, of an object,
\* the keys whose value is an array (Array.isArray is asked of them).
ParseFail == [ok |-> FALSE, kind |-> "none", val |-> <<>>, arrs |-> {}, next |-> 0]
Parsed(kind, val, arrs, next) ==
  [ok |-> TRUE, kind |-> kind, val |-> val, arrs |-> arrs, next |-> next]

RECURSIVE ParseValue(_, _)
RECURSIVE ParseElems(_, _, _)
RECURSIVE ParseMembers(_, _, _, _)

ParseValue(toks, i) ==
  IF i > Len(toks) THEN ParseFail
  ELSE LET t == toks[i].t IN
       CASE t = "str" -> Parsed("string", toks[i].v, {}, i + 1)
         [] t = "true" -> Parsed("boolean", TRUE, {}, i + 1)
         [] t = "false" -> Parsed("boolean", FALSE, {}, i + 1)
         [] t = "null" -> Parsed("null", <<>>, {}, i + 1)
         [] t = "[" ->
              IF i + 1 <= Len(toks) /\ toks[i + 1].t = "]"
              THEN Parsed("array", <<>>, {}, i + 2)
              ELSE ParseElems(toks, i + 1, <<>>)
         [] t = "{" ->
              IF i + 1 <= Len(toks) /\ toks[i + 1].t = "}"
              THEN Parsed("object", <<>>, {}, i + 2)
              ELSE ParseMembers(toks, i + 1, <<>>, {})
         [] OTHER -> ParseFail

ParseElems(toks, i, acc) ==
  LET r == ParseValue(toks, i) IN
  IF ~r.ok \/ r.next > Len(toks) THEN ParseFail
  ELSE CASE toks[r.next].t = "," -> ParseElems(toks, r.next + 1, Append(acc, r.val))
         [] toks[r.next].t = "]" -> Parsed("array", Append(acc, r.val), {}, r.next + 1)
         [] OTHER -> ParseFail

ParseMembers(toks, i, acc, arrs) ==
  IF i > Len(toks) \/ toks[i].t # "key" THEN ParseFail
  ELSE LET k == toks[i].k
           r == ParseValue(toks, i + 1)
       IN IF ~r.ok \/ r.next > Len(toks) THEN ParseFail
          ELSE LET acc2 == (k :> r.val) @@ acc
                   arrs2 == IF r.kind = "array" THEN arrs \cup {k} ELSE arrs \ {k}
               IN CASE toks[r.next].t = "," -> ParseMembers(toks, r.next + 1, acc2, arrs2)
                    [] toks[r.next].t = "}" -> Parsed("object", acc2, arrs2, r.next + 1)
                    [] OTHER -> ParseFail

\* JSON.parse: ok = FALSE is the SyntaxError it throws
JSONparse(text) ==
  LET r == ParseValue(text, 1) IN
  IF r.ok /\ r.next = Len(text) + 1 THEN r ELSE ParseFail

(***************************************************************************)
(* Constants of the program and the persistence helpers.                   *)
(***************************************************************************)
BLOOD_GROUPS ==
  {<<"A", "+">>, <<"A", "-">>, <<"B", "+">>, <<"B", "-">>,
   <<"A", "B", "+">>, <<"A", "B", "-">>, <<"O", "+">>, <<"O", "-">>}

STORAGE_KEYS == [donors |-> "bd_donors_v1", requests |-> "bd_requests_v1"]

\* The delay of notify's setTimeout, in milliseconds
NotifyDelay == 3500

Null == [null |-> TRUE]

\* localStorage.getItem: the stored text, or null
getItem(st, key) == IF key \in DOMAIN st THEN [null |-> FALSE, text |-> st[key]] ELSE Null

\* localStorage.setItem
setItem(st, key, text) == (key :> text) @@ st

\* A JavaScript value as far as the component looks at it: its kind and the value
Value(kind, val) == [kind |-> kind, val |-> val]

\* try { raw = getItem(key); return raw ? JSON.parse(raw) : [] } catch { return [] }
\* (null and the empty string are falsy)
Load(st, key) ==
  LET raw == getItem(st, key) IN
  IF raw = Null \/ raw.text = <<>> THEN Value("array", <<>>)
  ELSE LET p == JSONparse(raw.text) IN
       IF p.ok THEN Value(p.kind, p.val) ELSE Value("array", <<>>)

loadDonors(st) == Load(st, STORAGE_KEYS.donors)

loadRequests(st) == Load(st, STORAGE_KEYS.requests)

\* Mutant of saveDonors: only the newest entry is written, not the collection
saveDonorsNewest(st, list) ==
  setItem(st, STORAGE_KEYS.donors,
          Stringify(IF list = <<>> THEN <<>> ELSE <<Head(list)>>))

saveDonors(st, list) == setItem(st, STORAGE_KEYS.donors, Stringify(list))

saveRequests(st, list) == setItem(st, STORAGE_KEYS.requests, Stringify(list))

(***************************************************************************)
(* The inputs: what the forms hold when submitted, the ids a button can    *)
(* carry, the files the user can choose and what the storage holds when    *)
(* the page opens.                                                         *)
(***************************************************************************)
DonorForm(name, phone, blood, city) ==
  [name |-> name, phone |-> phone, blood |-> blood, city |-> city,
   last_donated |-> <<>>, note |-> <<>>]

DonorForms ==
  {DonorForm(<<"A", " ">>, <<"1">>, <<"O", "+">>, <<"D">>),
   DonorForm(<<" ">>, <<"1">>, <<"O", "+">>, <<"D">>),
   DonorForm(<<"A">>, <<>>, <<"O", "+">>, <<"D">>),
   DonorForm(<<"A">>, <<"1">>, <<>>, <<"D">>)}

RequestForm(name, phone, blood) ==
  [name |-> name, phone |-> phone, blood |-> blood, city |-> <<>>,
   hospital |-> <<"H">>, note |-> <<>>]

RequestForms ==
  {RequestForm(<<" ", "K">>, <<"2">>, <<"A", "-">>),
   RequestForm(<<>>, <<"2">>, <<"A", "-">>),
   RequestForm(<<"K">>, <<" ", " ">>, <<"A", "-">>),
   RequestForm(<<"K">>, <<"2">>, <<>>)}

\* The donor object addDonor builds from the form at instant t
NewDonor(form, t) ==
  [id |-> NowId(t),
   name |-> Trim(form.name),
   phone |-> Trim(form.phone),
   blood |-> Trim(form.blood),
   city |-> Trim(form.city),
   last_donated |-> Trim(form.last_donated),
   note |-> Trim(form.note),
   created_at |-> toISOString(t)]

\* The request object addRequest builds from the form at instant t
NewRequest(form, t) ==
  [id |-> NowId(t),
   name |-> Trim(form.name),
   phone |-> Trim(form.phone),
   blood |-> Trim(form.blood),
   city |-> Trim(form.city),
   hospital |-> Trim(form.hospital),
   note |-> Trim(form.note),
   created_at |-> toISOString(t),
   fulfilled |-> FALSE]

\* Mutant of MissingRequired: the phone is not asked for
MissingRequiredNoPhone(x) == x.name = <<>> \/ x.blood = <<>>

\* if(!x.name || !x.phone || !x.blood): the empty string is falsy
MissingRequired(x) == x.name = <<>> \/ x.phone = <<>> \/ x.blood = <<>>

\* Records of an earlier session, created at instant 0
StoredDonor == NewDonor(DonorForm(<<"B">>, <<"3">>, <<"B", "+">>, <<>>), 0)
StoredRequest == NewRequest(RequestForm(<<"K">>, <<"2">>, <<"A", "-">>), 0)

NotJsonText == <<Tok("{")>>
NullText == <<Tok("null")>>

InitialStorages ==
  {<<>>,
   setItem(<<>>, STORAGE_KEYS.donors, NotJsonText),
   setItem(setItem(<<>>, STORAGE_KEYS.donors, NullText),
           STORAGE_KEYS.requests, Stringify(<<StoredRequest>>)),
   setItem(setItem(<<>>, STORAGE_KEYS.donors, Stringify(<<StoredDonor>>)),
           STORAGE_KEYS.requests, Stringify(<<StoredRequest>>))}

\* A document written by hand: two donors under one id, and requests that is no array
FileDonorX == [id |-> <<"7">>, name |-> <<"X">>, phone |-> <<"4">>, blood |-> <<"O", "-">>]
FileDonorY == [id |-> <<"7">>, name |-> <<"Y">>, phone |-> <<"5">>, blood |-> <<"O", "-">>]
PartialDoc ==
  <<Tok("{"), KeyTok("donors")>> \o Stringify(<<FileDonorX, FileDonorY>>)
    \o <<Tok(","), KeyTok("requests"), Tok("null"), Tok("}")>>

UserFiles == {NotJsonText, PartialDoc}

Ids == {NowId(t) : t \in 0..MaxTime} \cup {FileDonorX.id}

(***************************************************************************)
(* The component.  An action is one task of the event loop: a handler, the *)
(* render its state updates cause, and the effects of that render.         *)
(***************************************************************************)
NoFilter == [q |-> <<>>, blood |-> <<>>, city |-> <<>>]
NoPending == [donors |-> Value("array", <<>>), requests |-> Value("array", <<>>)]
NoFile == [has |-> FALSE]

\* Observation kept with the exported document: the collections it was written
\* from, and whether the store has been empty since.
Emptied(ex, d, r) ==
  IF ex.has /\ d = <<>> /\ r = <<>> THEN [ex EXCEPT !.emptied = TRUE] ELSE ex

\* The message and the timers as a handler finds them
Channel == [message |-> message, timers |-> timers]

\* notify(text, type): setMessage({text, type}); setTimeout(() => setMessage(null), 3500)
notify(ch, text, type) ==
  [message |-> [text |-> text, type |-> type],
   timers |-> Append(ch.timers, now + NotifyDelay)]

\* An error no boundary catches, thrown by a render or an effect: React unmounts
\* the whole tree.  The component's state is gone, and the callbacks still
\* scheduled (timers, file reads) set state on nothing.
Unmount ==
  /\ phase' = "crashed"
  /\ donors' = <<>>
  /\ requests' = <<>>
  /\ filter' = NoFilter
  /\ message' = Null
  /\ view' = "home"
  /\ pending' = NoPending
  /\ timers' = <<>>
  /\ reads' = EmptyBag

\* The two save effects of a render: useEffect(() => saveDonors(donors), [donors])
\* runs when the donors array is a new one, and so for requests.
SaveEffects(st, d, dNew, r, rNew) ==
  LET s1 == IF dNew THEN saveDonors(st, d) ELSE st
  IN IF rNew THEN saveRequests(s1, r) ELSE s1

EffectKeys(dNew, rNew) ==
  (IF dNew THEN {STORAGE_KEYS.donors} ELSE {})
    \cup (IF rNew THEN {STORAGE_KEYS.requests} ELSE {})

\* The render after a handler and its effects.  d, r: the collections rendered;
\* dNew, rNew: whether the handler set a new array; ch: message and timers;
\* vw: the view; rd: the reads in flight;
\* quota: localStorage.setItem throws (QuotaExceededError) in this task.
Commit(d, dNew, r, rNew, ch, vw, rd, quota) ==
  /\ wrote' = EffectKeys(dNew, rNew)
  /\ exported' = Emptied(exported, d, r)
  /\ IF quota /\ EffectKeys(dNew, rNew) # {}
     THEN Unmount /\ storage' = storage
     ELSE /\ phase' = "ready"
          /\ donors' = d
          /\ requests' = r
          /\ message' = ch.message
          /\ timers' = ch.timers
          /\ view' = vw
          /\ reads' = rd
          /\ storage' = SaveEffects(storage, d, dNew, r, rNew)
          /\ pending' = NoPending
          /\ UNCHANGED filter

Init ==
  /\ phase = "mounted"
  /\ donors = <<>>
  /\ requests = <<>>
  /\ filter = NoFilter
  /\ message = Null
  /\ view = "home"
  /\ pending = NoPending
  /\ storage \in InitialStorages
  /\ now = 1
  /\ timers = <<>>
  /\ reads = EmptyBag
  /\ exported = NoFile
  /\ wrote = {}

\* The effects of the first render, in order: the load effect reads both records
\* and queues setDonors/setRequests; the save effects write the state of that
\* render, the two empty arrays.
MountEffects ==
  /\ phase = "mounted"
  /\ \E quota \in BOOLEAN :
       /\ wrote' = EffectKeys(TRUE, TRUE)
       /\ IF quota
          THEN Unmount /\ storage' = storage
          ELSE /\ phase' = "loading"
               /\ pending' = [donors |-> loadDonors(storage), requests |-> loadRequests(storage)]
               /\ storage' = SaveEffects(storage, donors, TRUE, requests, TRUE)
               /\ UNCHANGED <<donors, requests, filter, message, view, timers, reads>>
  /\ UNCHANGED <<now, exported>>

\* The home view reads donors.length and requests.length and calls requests.map:
\* a null donors or a requests that is no array throws in render.
RenderThrows(d, r) == d.kind = "null" \/ r.kind # "array"

\* The render of the loaded state and its save effects
LoadCommit ==
  /\ phase = "loading"
  /\ IF RenderThrows(pending.donors, pending.requests)
     THEN /\ Unmount
          /\ UNCHANGED <<storage, exported>>
          /\ wrote' = {}
     ELSE \E quota \in BOOLEAN :
            Commit(pending.donors.val, TRUE, pending.requests.val, TRUE,
                   Channel, view, reads, quota)
  /\ UNCHANGED now

\* Mutant of Prepend: the new entry goes last
PrependLast(x, prev) == prev \o <<x>>

\* prev => [x, ...prev]
Prepend(x, prev) == <<x>> \o prev

addDonor(form) ==
  /\ phase = "ready"
  /\ Len(timers) < MaxTimers
  /\ LET donor == NewDonor(form, now) IN
     IF MissingRequired(donor)
     THEN Commit(donors, FALSE, requests, FALSE,
                 notify(Channel, "name, phone and blood group are required", "info"),
                 view, reads, FALSE)
     ELSE /\ Len(donors) < MaxItems
          /\ \E quota \in BOOLEAN :
               Commit(Prepend(donor, donors), TRUE, requests, FALSE,
                      notify(Channel, "registered as a donor", "info"),
                      "find", reads, quota)
  /\ UNCHANGED now

addRequest(form) ==
  /\ phase = "ready"
  /\ Len(timers) < MaxTimers
  /\ LET req == NewRequest(form, now) IN
     IF MissingRequired(req)
     THEN Commit(donors, FALSE, requests, FALSE,
                 notify(Channel, "name, phone and blood group are required", "info"),
                 view, reads, FALSE)
     ELSE /\ Len(requests) < MaxItems
          /\ \E quota \in BOOLEAN :
               Commit(donors, FALSE, Prepend(req, requests), TRUE,
                      notify(Channel, "request submitted", "info"),
                      "home", reads, quota)
  /\ UNCHANGED now

\* prev.map(r => r.id === id ? {...r, fulfilled: !r.fulfilled} : r)
\* Mutant of ToggleIn: the matching request is marked fulfilled, not flipped
ToggleInMark(list, id) ==
  [i \in 1..Len(list) |->
     IF list[i].id = id THEN [list[i] EXCEPT !.fulfilled = TRUE] ELSE list[i]]

ToggleIn(list, id) ==
  [i \in 1..Len(list) |->
     IF list[i].id = id THEN [list[i] EXCEPT !.fulfilled = ~list[i].fulfilled] ELSE list[i]]

toggleFulfilled(id) ==
  /\ phase = "ready"
  /\ \E quota \in BOOLEAN :
       Commit(donors, FALSE, ToggleIn(requests, id), TRUE, Channel, view, reads, quota)
  /\ UNCHANGED now

\* prev.filter(x => x.id !== id)
Without(list, id) == SelectSeq(list, LAMBDA x : x.id # id)

\* The Remove button of a donor (admin view)
removeDonor(id) ==
  /\ phase = "ready"
  /\ Len(timers) < MaxTimers
  /\ \E quota \in BOOLEAN :
       Commit(Without(donors, id), TRUE, requests, FALSE,
              notify(Channel, "Donor removed", "info"), view, reads, quota)
  /\ UNCHANGED now

\* The Delete button of a request (admin view)
removeRequest(id) ==
  /\ phase = "ready"
  /\ Len(timers) < MaxTimers
  /\ \E quota \in BOOLEAN :
       Commit(donors, FALSE, Without(requests, id), TRUE,
              notify(Channel, "Request removed", "info"), view, reads, quota)
  /\ UNCHANGED now

\* The Clear button of the request form: setRequests([])
clearAllRequests ==
  /\ phase = "ready"
  /\ Len(timers) < MaxTimers
  /\ \E quota \in BOOLEAN :
       Commit(donors, FALSE, <<>>, TRUE,
              notify(Channel, "All requests cleared (local only)", "info"),
              view, reads, quota)
  /\ UNCHANGED now

\* Mutant of ExportText: the payload holds the donors only
ExportTextDonorsOnly(d, r) ==
  <<Tok("{"), KeyTok("donors")>> \o Stringify(d) \o <<Tok("}")>>

\* JSON.stringify({donors, requests}, null, 2)
ExportText(d, r) ==
  <<Tok("{"), KeyTok("donors")>> \o Stringify(d)
    \o <<Tok(","), KeyTok("requests")>> \o Stringify(r) \o <<Tok("}")>>

\* The Export button: exportData(); notify(...).  The browser saves the document.
exportData ==
  /\ phase = "ready"
  /\ Len(timers) < MaxTimers
  /\ wrote' = {}
  /\ exported' = Emptied([has |-> TRUE, text |-> ExportText(donors, requests),
                          donors |-> donors, requests |-> requests, emptied |-> FALSE],
                         donors, requests)
  /\ message' = notify(Channel, "data exported", "info").message
  /\ timers' = notify(Channel, "data exported", "info").timers
  /\ UNCHANGED <<phase, donors, requests, filter, view, pending, storage, now, reads>>

\* The files the user can choose in the file input: none, one written by hand,
\* or the document exportData wrote.
Choices ==
  {NoFile} \cup {[has |-> TRUE, text |-> t] : t \in UserFiles}
    \cup (IF exported.has THEN {[has |-> TRUE, text |-> exported.text]} ELSE {})

\* importData(e): if(!f) return; reader.onload = ...; reader.readAsText(f)
importData(f) ==
  /\ phase = "ready"
  /\ wrote' = {}
  /\ IF ~f.has
     THEN UNCHANGED reads
     ELSE /\ BagCardinality(reads) < MaxReads
          /\ reads' = reads (+) SetToBag({f.text})
  /\ UNCHANGED <<phase, donors, requests, filter, message, view, pending, storage,
                 now, timers, exported>>

\* Mutant of Imported: the collections are emptied before the text is parsed
ImportedAfterReset(text, d, r) ==
  LET p == JSONparse(text) IN
  IF ~p.ok \/ p.kind = "null"
  THEN [ok |-> FALSE, donors |-> <<>>, dNew |-> TRUE, requests |-> <<>>, rNew |-> TRUE]
  ELSE LET dNew == p.kind = "object" /\ "donors" \in p.arrs
           rNew == p.kind = "object" /\ "requests" \in p.arrs
       IN [ok |-> TRUE,
           donors |-> IF dNew THEN p.val.donors ELSE d, dNew |-> dNew,
           requests |-> IF rNew THEN p.val.requests ELSE r, rNew |-> rNew]

\* What reader.onload does with the text read: obj = JSON.parse(text) throws on a
\* text that is no JSON, obj.donors throws on null; the catch notifies an error.
\* Otherwise each of obj.donors, obj.requests that is an array replaces its
\* collection.
Imported(text, d, r) ==
  LET p == JSONparse(text) IN
  IF ~p.ok \/ p.kind = "null"
  THEN [ok |-> FALSE, donors |-> d, dNew |-> FALSE, requests |-> r, rNew |-> FALSE]
  ELSE LET dNew == p.kind = "object" /\ "donors" \in p.arrs
           rNew == p.kind = "object" /\ "requests" \in p.arrs
       IN [ok |-> TRUE,
           donors |-> IF dNew THEN p.val.donors ELSE d, dNew |-> dNew,
           requests |-> IF rNew THEN p.val.requests ELSE r, rNew |-> rNew]

\* reader.onload of a read in flight, which delivers text
importLoaded(text) ==
  /\ phase = "ready"
  /\ text \in BagToSet(reads)
  /\ Len(timers) < MaxTimers
  /\ LET got == Imported(text, donors, requests)
         rest == reads (-) SetToBag({text})
     IN
     IF got.ok
     THEN \E quota \in BOOLEAN :
            Commit(got.donors, got.dNew, got.requests, got.rNew,
                   notify(Channel, "data import complete", "info"),
                   view, rest, quota)
     ELSE \E quota \in BOOLEAN :
            Commit(got.donors, got.dNew, got.requests, got.rNew,
                   notify(Channel, "problem reading the file", "error"),
                   view, rest, quota)
  /\ UNCHANGED now

\* A millisecond passes
Tick ==
  /\ now < MaxTime
  /\ now' = now + 1
  /\ UNCHANGED <<phase, donors, requests, filter, message, view, pending, storage,
                 timers, reads, exported, wrote>>

Next ==
  \/ MountEffects
  \/ LoadCommit
  \/ \E form \in DonorForms : addDonor(form)
  \/ \E form \in RequestForms : addRequest(form)
  \/ \E id \in Ids : toggleFulfilled(id)
  \/ \E id \in Ids : removeDonor(id)
  \/ \E id \in Ids : removeRequest(id)
  \/ clearAllRequests
  \/ exportData
  \/ \E f \in Choices : importData(f)
  \/ \E text \in BagToSet(reads) : importLoaded(text)
  \/ Tick

Spec == Init /\ [][Next]_vars

\* The callback of a notification's setTimeout, when it is due: setMessage(null)
timerFired ==
  /\ phase = "ready"
  /\ timers # <<>>
  /\ Head(timers) <= now
  /\ message' = Null
  /\ timers' = Tail(timers)
  /\ wrote' = {}
  /\ UNCHANGED <<phase, donors, requests, filter, view, pending, storage, now, reads,
                 exported>>

\* While a timer is pending, half the delay of a notification passes, or what is
\* left until the first timer is due (with none pending the passage of time
\* changes nothing but the ids, which Tick covers)
Elapse ==
  \E d \in {NotifyDelay \div 2, NotifyDelay} :
    /\ timers # <<>>
    /\ now + d <= Head(timers)
    /\ now + d <= MaxTime + MaxPeriods * NotifyDelay
    /\ now' = now + d
    /\ UNCHANGED <<phase, donors, requests, filter, message, view, pending, storage,
                   timers, reads, exported, wrote>>

\* The Search button of the find view: notify('Search applied')
searchApplied ==
  /\ phase = "ready"
  /\ Len(timers) < MaxTimers
  /\ Commit(donors, FALSE, requests, FALSE, notify(Channel, "Search applied", "info"),
            view, reads, FALSE)
  /\ UNCHANGED now

\* The Share button of the donor view: notify('Share link copied')
shareLink ==
  /\ phase = "ready"
  /\ Len(timers) < MaxTimers
  /\ Commit(donors, FALSE, requests, FALSE, notify(Channel, "Share link copied", "info"),
            view, reads, FALSE)
  /\ UNCHANGED now

(***************************************************************************)
(* The donor filter.                                                       *)
(***************************************************************************)
\* A property that is present and no empty string
Truthy(d, k) == k \in DOMAIN d /\ d[k] # <<>>

\* Mutant of Passes: a donor with no city passes any city filter
PassesAbsentCity(d, f) ==
  IF f.blood # <<>> /\ ("blood" \notin DOMAIN d \/ d.blood # f.blood) THEN FALSE
  ELSE IF f.city # <<>> /\ Truthy(d, "city")
          /\ ~includes(toLowerCase(d.city), toLowerCase(f.city))
       THEN FALSE
  ELSE IF f.q # <<>>
       THEN LET q == toLowerCase(f.q) IN
            \/ Truthy(d, "name") /\ includes(toLowerCase(d.name), q)
            \/ Truthy(d, "phone") /\ includes(d.phone, q)
  ELSE TRUE

\* The callback of donors.filter in filteredDonors
Passes(d, f) ==
  IF f.blood # <<>> /\ ("blood" \notin DOMAIN d \/ d.blood # f.blood) THEN FALSE
  ELSE IF f.city # <<>>
          /\ (~Truthy(d, "city") \/ ~includes(toLowerCase(d.city), toLowerCase(f.city)))
       THEN FALSE
  ELSE IF f.q # <<>>
       THEN LET q == toLowerCase(f.q) IN
            \/ Truthy(d, "name") /\ includes(toLowerCase(d.name), q)
            \/ Truthy(d, "phone") /\ includes(d.phone, q)
  ELSE TRUE

\* Mutant of filteredDonors: a query decides alone, before blood and city are looked at
filteredDonorsQueryFirst(list, f) ==
  SelectSeq(list, LAMBDA d :
    IF f.q # <<>>
    THEN \/ Truthy(d, "name") /\ includes(toLowerCase(d.name), toLowerCase(f.q))
         \/ Truthy(d, "phone") /\ includes(d.phone, toLowerCase(f.q))
    ELSE Passes(d, f))

filteredDonors(list, f) == SelectSeq(list, LAMBDA d : Passes(d, f))

FilterQueries == {<<>>, <<"k">>, <<"K">>, <<"0">>}
FilterBloods == {<<>>, <<"O", "+">>, <<"A", "+">>}
FilterCities == {<<>>, <<"d">>, <<"K", "h">>}

\* onChange of the inputs of the filter: setFilter(f => ({...f, [k]: value}))
setFilter(k, value) ==
  /\ phase = "ready"
  /\ filter' = [filter EXCEPT ![k] = value]
  /\ wrote' = {}
  /\ UNCHANGED <<phase, donors, requests, message, view, pending, storage, now, timers,
                 reads, exported>>

\* The Clear button of the filter: setFilter({q:'', blood:'', city:''})
clearFilter ==
  /\ phase = "ready"
  /\ filter' = NoFilter
  /\ wrote' = {}
  /\ UNCHANGED <<phase, donors, requests, message, view, pending, storage, now, timers,
                 reads, exported>>

(***************************************************************************)
(* Specifications.  Spec is the component from its mount, over a stretch   *)
(* of time shorter than the delay of a notification.  The others start in  *)
(* a state the component is in once its store is loaded and its            *)
(* notifications have expired.                                             *)
(***************************************************************************)
Loaded(d, r) ==
  /\ phase = "ready"
  /\ donors = d
  /\ requests = r
  /\ filter = NoFilter
  /\ message = Null
  /\ view = "home"
  /\ pending = NoPending
  /\ storage = SaveEffects(<<>>, d, TRUE, r, TRUE)
  /\ now = 1
  /\ timers = <<>>
  /\ reads = EmptyBag
  /\ exported = NoFile
  /\ wrote = {}

\* The sequences of elements of S of length at most n
SeqsUpTo(S, n) == UNION {[1..k -> S] : k \in 0..n}

FilterDonors ==
  {NewDonor(DonorForm(<<"A", "k">>, <<"0", "1">>, <<"O", "+">>, <<"D", "h">>), 1),
   NewDonor(DonorForm(<<"k">>, <<"0", "2">>, <<"O", "+">>, <<"K", "h">>), 2),
   NewDonor(DonorForm(<<"B">>, <<"1">>, <<"A", "+">>, <<"d", "h">>), 3),
   FileDonorX}

InitFilter == \E d \in SeqsUpTo(FilterDonors, MaxItems) : Loaded(d, <<>>)

NextFilter ==
  \/ \E q \in FilterQueries : setFilter("q", q)
  \/ \E b \in FilterBloods : setFilter("blood", b)
  \/ \E c \in FilterCities : setFilter("city", c)
  \/ clearFilter

SpecFilter == InitFilter /\ [][NextFilter]_vars

InitNotify == Loaded(<<>>, <<>>)

NextNotify ==
  \/ \E q \in FilterQueries : setFilter("q", q)
  \/ clearFilter
  \/ searchApplied
  \/ shareLink
  \/ timerFired
  \/ Elapse

SpecNotify == InitNotify /\ [][NextNotify]_vars

StoredRequestDone == [StoredRequest EXCEPT !.fulfilled = TRUE]

InitRoundTrip == Loaded(<<StoredDonor>>, <<StoredRequestDone>>)

NextRoundTrip ==
  \/ exportData
  \/ \E id \in Ids : removeDonor(id)
  \/ clearAllRequests
  \/ \E f \in Choices : importData(f)
  \/ \E text \in BagToSet(reads) : importLoaded(text)
  \/ timerFired
  \/ Elapse

SpecRoundTrip == InitRoundTrip /\ [][NextRoundTrip]_vars

(***************************************************************************)
(* The claims.                                                             *)
(***************************************************************************)
Stored(key) == getItem(storage, key)
TextOf(list) == [null |-> FALSE, text |-> Stringify(list)]

EmptyAfterTrim(form) ==
  Trim(form.name) = <<>> \/ Trim(form.phone) = <<>> \/ Trim(form.blood) = <<>>

RejectedOnly ==
  /\ UNCHANGED <<donors, requests, storage, phase>>
  /\ wrote' = {}
  /\ message' = [text |-> "name, phone and blood group are required", type |-> "info"]

\* C1: addDonor or addRequest submitted with a name, phone or blood that is empty
\* after trimming leaves the donors, the requests and the storage as they were,
\* calls localStorage.setItem on no key, and sets the validation message.
C1_ValidationGate ==
  [][/\ \A form \in DonorForms :
          EmptyAfterTrim(form) /\ addDonor(form) => RejectedOnly
     /\ \A form \in RequestForms :
          EmptyAfterTrim(form) /\ addRequest(form) => RejectedOnly]_vars

C1_Witness ==
  /\ phase = "ready"
  /\ message = [text |-> "name, phone and blood group are required", type |-> "info"]
  /\ donors # <<>>
  /\ requests # <<>>

\* C2: whenever the component is up and its effects have run, the record stored
\* under each key is the serialization of the whole collection in memory.
C2_WriteThrough ==
  phase = "ready" =>
    /\ Stored(STORAGE_KEYS.donors) = TextOf(donors)
    /\ Stored(STORAGE_KEYS.requests) = TextOf(requests)

C2_Witness ==
  /\ phase = "ready"
  /\ message # Null
  /\ message.text = "registered as a donor"
  /\ Len(donors) = 2
  /\ Stored(STORAGE_KEYS.donors) = TextOf(donors)

Distinct(list) ==
  \A i, j \in 1..Len(list) : i # j => list[i].id # list[j].id

\* C3: no two donors have the same id and no two requests have the same id.
C3_IdsUnique == Distinct(donors) /\ Distinct(requests)

\* C4: while a file read is in flight neither collection changes unless a read
\* completes, and no second read is in flight.
C4_NoRaceWithImport ==
  [][reads # EmptyBag =>
       /\ \/ donors' = donors /\ requests' = requests
          \/ BagCardinality(reads') < BagCardinality(reads)
       /\ BagCardinality(reads') <= 1]_vars

\* C5: whatever the storage, the persisted records and the imported documents do,
\* the component stays mounted and takes further operations.
C5_StaysInteractive == phase # "crashed"

\* C6: what loadDonors and loadRequests return is an array, whatever is stored.
C6_LoadYieldsArrays ==
  phase = "loading" => pending.donors.kind = "array" /\ pending.requests.kind = "array"

QueryMatch(d, query) ==
  \/ Truthy(d, "name") /\ includes(toLowerCase(d.name), toLowerCase(query))
  \/ Truthy(d, "phone") /\ includes(d.phone, toLowerCase(query))

BloodMatch(d, blood) == blood = <<>> \/ ("blood" \in DOMAIN d /\ d.blood = blood)

CityMatch(d, city) ==
  city = <<>> \/ (Truthy(d, "city") /\ includes(toLowerCase(d.city), toLowerCase(city)))

\* C7 as stated: with a query, the result is the donors whose name or phone
\* contains the query, whatever the blood and city of the filter.
C7_QueryAlone ==
  filter.q # <<>> =>
    filteredDonors(donors, filter) = SelectSeq(donors, LAMBDA d : QueryMatch(d, filter.q))

\* C7 as amended: with a query, the result is the donors, in order, that pass
\* the blood and the city of the filter and whose lower-cased name or whose
\* phone contains the lower-cased query.
C7_QueryConjoined ==
  filter.q # <<>> =>
    filteredDonors(donors, filter) =
      SelectSeq(donors, LAMBDA d : /\ BloodMatch(d, filter.blood)
                                   /\ CityMatch(d, filter.city)
                                   /\ QueryMatch(d, filter.q))

C7_Witness ==
  /\ filter.q # <<>>
  /\ filter.blood # <<>>
  /\ filteredDonors(donors, filter) # <<>>
  /\ filteredDonors(donors, filter)
       # SelectSeq(donors, LAMBDA d : QueryMatch(d, filter.q))

\* C8: a message is cleared only when the delay of the latest notification has
\* expired: no timer of an earlier notification clears it.
C8_ClearedWhenLatestExpires ==
  [][message # Null /\ message' = Null => timers[Len(timers)] <= now]_vars

\* C9: importing the document exportData wrote yields the donors and the
\* requests it was written from, whatever was removed or cleared in between.
C9_RoundTrip ==
  [][\A text \in BagToSet(reads) :
       exported.has /\ text = exported.text /\ importLoaded(text) /\ phase' = "ready"
         => donors' = exported.donors /\ requests' = exported.requests]_vars

C9_Witness ==
  /\ phase = "ready"
  /\ exported.has
  /\ exported.emptied
  /\ message # Null
  /\ message.text = "data import complete"
  /\ donors = exported.donors
  /\ requests = exported.requests
  /\ donors # <<>>
  /\ requests # <<>>

\* C10: the load of a text that JSON.parse rejects leaves the donors, the requests
\* and the storage as they were and sets a message of type error.
C10_MalformedImportNoOp ==
  [][\A text \in BagToSet(reads) :
       ~JSONparse(text).ok /\ importLoaded(text)
         => /\ UNCHANGED <<donors, requests, storage>>
            /\ wrote' = {}
            /\ message' # Null
            /\ message'.type = "error"]_vars

C10_Witness ==
  /\ phase = "ready"
  /\ message # Null
  /\ message.type = "error"
  /\ donors # <<>>
  /\ requests # <<>>

\* C11: an addDonor that passes validation makes donors the new donor followed by
\* the previous donors in their order and leaves requests alone; an addRequest
\* that passes validation does the same to requests and leaves donors alone.
C11_NewestFirst ==
  [][/\ \A form \in DonorForms :
          ~EmptyAfterTrim(form) /\ addDonor(form) /\ phase' = "ready"
            => /\ Len(donors') = Len(donors) + 1
               /\ donors'[1] = NewDonor(form, now)
               /\ SubSeq(donors', 2, Len(donors')) = donors
               /\ requests' = requests
     /\ \A form \in RequestForms :
          ~EmptyAfterTrim(form) /\ addRequest(form) /\ phase' = "ready"
            => /\ Len(requests') = Len(requests) + 1
               /\ requests'[1] = NewRequest(form, now)
               /\ SubSeq(requests', 2, Len(requests')) = requests
               /\ donors' = donors]_vars

C11_Witness ==
  /\ phase = "ready"
  /\ wrote = {STORAGE_KEYS.donors}
  /\ Len(donors) = 2
  /\ donors[2] = StoredDonor
  /\ donors[1].id = NowId(now)
  /\ requests # <<>>

HasId(list, id) == \E i \in 1..Len(list) : list[i].id = id

\* C12: a toggleFulfilled(id) leaves the donors alone and yields requests that a
\* second toggleFulfilled(id) takes back to the requests it started from; it
\* changes nothing but the fulfilled of the requests of that id, and with an id
\* no request has it changes nothing.
C12_ToggleTwice ==
  [][\A id \in Ids :
       toggleFulfilled(id) /\ phase' = "ready"
         => /\ donors' = donors
            /\ Len(requests') = Len(requests)
            /\ \A i \in 1..Len(requests) :
                 IF requests[i].id = id
                 THEN /\ requests'[i].fulfilled = ~requests[i].fulfilled
                      /\ [requests'[i] EXCEPT !.fulfilled = requests[i].fulfilled]
                           = requests[i]
                 ELSE requests'[i] = requests[i]
            /\ ToggleIn(requests', id) = requests
            /\ ~HasId(requests, id) => requests' = requests]_vars

C12_Witness ==
  /\ phase = "ready"
  /\ wrote = {STORAGE_KEYS.requests}
  /\ Len(requests) = 2
  /\ requests[1].fulfilled
  /\ ~requests[2].fulfilled
  /\ requests[1].id # requests[2].id

\* C13: with an empty query, the result is the donors, in their order, whose blood
\* is the blood of the filter when one is set and whose lower-cased city contains
\* the lower-cased city of the filter when one is set; a donor with no city or an
\* empty one fails a city filter that is set.
C13_EmptyQueryConjunction ==
  filter.q = <<>> =>
    /\ filteredDonors(donors, filter) =
         SelectSeq(donors, LAMBDA d : /\ BloodMatch(d, filter.blood)
                                      /\ CityMatch(d, filter.city))
    /\ filter.city # <<>> =>
         \A i \in 1..Len(filteredDonors(donors, filter)) :
           Truthy(filteredDonors(donors, filter)[i], "city")

C13_Witness ==
  /\ filter.q = <<>>
  /\ filter.blood # <<>>
  /\ filter.city # <<>>
  /\ \E i \in 1..Len(donors) : ~Truthy(donors[i], "city")
  /\ Len(donors) = 2
  /\ Len(filteredDonors(donors, filter)) = 1

\* C14: from mount until the loaded collections are rendered, the stored records
\* still hold the lists that were loaded from them.
C14_StartupKeepsRecords ==
  (phase = "loading" /\ pending.donors.kind = "array" /\ pending.requests.kind = "array")
    => /\ Stored(STORAGE_KEYS.donors) = TextOf(pending.donors.val)
       /\ Stored(STORAGE_KEYS.requests) = TextOf(pending.requests.val)

====
